---- MODULE Spec2Model ----
(***************************************************************************)
(* Ledger model of the TradeX wallet: the tables of supabase/schema.sql    *)
(* (profiles, deposits, withdrawals) and the service calls of              *)
(* src/services/supabaseService.ts that read and write them.               *)
(*                                                                         *)
(* Every service call is a sequence of awaited database requests.  Each    *)
(* request is one atomic step of the database; between two requests of one *)
(* call the requests of other calls may run.  A client process p is either *)
(* idle or inside one call, at the request named by its pc.                *)
(*                                                                         *)
(* Money is counted in whole minor units: DECIMAL(15,2) columns hold exact *)
(* hundredths, and parseFloat(x) + amount stored back into such a column   *)
(* is the exact sum for the magnitudes modelled.                           *)
(***************************************************************************)
EXTENDS Integers, Sequences, FiniteSets, TLC

\* ---------------------------------------------------------------- bounds
NumProcs == 2
MaxDeposits == 1
MaxWithdrawals == 2
MaxAmount == 2
MaxCharge == 0
MaxBalance == 3
MaxCount == 2
ConcDeposits == 1
ConcWithdrawals == 2
ConcAmount == 1
ConcBalance == 1
RlsWithdrawals == 1
ScenarioWithdrawals == 2
ArgsWithdrawals == 1
ArgsCharge == 1
FormsWithdrawals == 2
PollWithdrawals == 1
ModalDeposits == 2
MaxDuration == 2
MaxNow == 3

\* The scenario's figures: the balance it starts from, the amount requested,
\* and the fixed charge of the withdrawal form.
ScenarioBalance == 1000
ScenarioAmount == 200
withdrawalCharge == 50
\* WithdrawalModal's charge until the settings have been read.
defaultCharges == 50

Procs == 1..NumProcs
\* The durations, in minutes, given to startProcessing.
Durations == 1..MaxDuration
Charges == 0..MaxCharge

\* ------------------------------------------------------------- identities
Users == {"u1"}
Admins == {"a1"}
ProfileIds == Users \cup Admins

\* auth.uid() of a request: a profile's id, or none for an unauthenticated client.
Identities == ProfileIds \cup {"anon"}
Roles == {"user", "admin"}

\* Keys and values of the settings tried.
SettingKeys == {"whatsapp_number", "bank_name"}
SettingValues == {"v1", "v2"}

DepositStatus == {"pending", "approved", "rejected"}
WithdrawalStatus == {"pending", "processing", "held", "completed", "rejected", "failed"}
AccountStatus == {"active", "hold"}

DepositTerminal == {"approved", "rejected"}
WithdrawalTerminal == {"completed", "rejected", "failed"}

VARIABLES
  profiles,     \* table public.profiles: id -> [balance, account_status, role]
  deposits,     \* table public.deposits: sequence of rows, id = index
  withdrawals,  \* table public.withdrawals: sequence of rows, id = index
  procs,        \* client processes: the call each one is in, and its locals
  thrown,       \* the error thrown by the step just taken, "none" when it threw none
  dledger,      \* history, per deposit: number of balance credits applied for it
  wledger,      \* history, per withdrawal: debit/refund bookkeeping
  settings,     \* table public.settings: set of rows [key, value]
  actor,        \* auth.uid() of the client whose step was just taken
  now,          \* the clock read by new Date(), in minutes
  wmodal,       \* state of the user's WithdrawalModal component
  dmodal,       \* state of the user's DepositModal component
  route,        \* useAuth() values and what the route guards last rendered
  bankView      \* what the last getBankDetails call returned

\* The state held outside the tables and the service calls.
client == <<now, wmodal, dmodal, route, bankView>>

vars == <<profiles, deposits, withdrawals, procs, thrown, dledger, wledger,
          settings, actor, now, wmodal, dmodal, route, bankView>>

\* ------------------------------------------------------------ definitions
\* The settings keys of the bank details, in the order updateBankDetails
\* writes them, and the field of the bank-details object that goes with each.
BankKeys == <<"bank_name", "account_name", "account_number", "ifsc_code",
              "bank_branch">>

BankKeySet == {BankKeys[i] : i \in DOMAIN BankKeys}

BankField ==
  [bank_name |-> "bankName", account_name |-> "accountName",
   account_number |-> "accountNumber", ifsc_code |-> "ifscCode",
   bank_branch |-> "branch"]

BankFields == {BankField[k] : k \in BankKeySet}

NoBankDetails == [f \in BankFields |-> ""]

Idle ==
  [op |-> "idle", pc |-> "idle", uid |-> "none", id |-> 0, userId |-> "none",
   amount |-> 0, netAmount |-> 0, charges |-> 0, note |-> "undefined",
   balance |-> 0, clean |-> FALSE, details |-> NoBankDetails]

\* Row-level security: the caller's profile has role 'admin'.
IsAdmin(uid) == uid \in DOMAIN profiles /\ profiles[uid].role = "admin"

\* Policies "Admins can update all deposits" / "Admins can update all
\* withdrawals": the only UPDATE policies of the two tables.
CanUpdateRecord_anyone(uid) == TRUE

CanUpdateRecord(uid) == IsAdmin(uid)

\* UPDATE ... WHERE id = rowId on a table: rows the policy hides, and ids
\* that match no row, are left alone without an error.
\* fields is the object passed to .update(): the columns it names are set.
\* A row carries the columns the exploration follows; a column it does not
\* carry (processing_end_time outside the explorations of the clock) is
\* written without being followed.
UpdateRow_all(table, rowId, allowed, fields) ==
  IF allowed /\ rowId \in DOMAIN table
    THEN [i \in DOMAIN table |->
            [c \in DOMAIN table[i] |->
               IF c \in DOMAIN fields THEN fields[c] ELSE table[i][c]]]
    ELSE table

UpdateRow(table, rowId, allowed, fields) ==
  IF allowed /\ rowId \in DOMAIN table
    THEN [table EXCEPT ![rowId] =
            [c \in DOMAIN @ |-> IF c \in DOMAIN fields THEN fields[c] ELSE @[c]]]
    ELSE table

\* History counters saturate at MaxCount.
Bump(n) == IF n < MaxCount THEN n + 1 ELSE n

SetBalance(userId, newBalance) ==
  IF userId \in DOMAIN profiles
    THEN [profiles EXCEPT ![userId].balance = newBalance]
    ELSE profiles

\* History mark of a call in flight: clean = no other call has written the
\* balance of its profile since it began.  A balance write by p clears the
\* mark of the other calls on that profile.
TouchProcs(p, userId) ==
  [q \in Procs |->
     IF q # p /\ procs[q].op # "idle" /\ procs[q].userId = userId
       THEN [procs[q] EXCEPT !.clean = FALSE]
       ELSE procs[q]]

\* History mark of a withdrawal: clean = since its creation read the balance
\* (pre), nothing but its own debit has written the owner's balance.  Any
\* other balance write to userId's profile clears the mark of that user's
\* withdrawals (wid = the withdrawal whose own debit or refund this is, else 0).
TouchLedger(wid, userId) ==
  [i \in DOMAIN wledger |->
     IF i # wid /\ withdrawals[i].user_id = userId
       THEN [wledger[i] EXCEPT !.clean = FALSE, !.pre = 0]
       ELSE wledger[i]]

\* WithdrawalModal's state as first rendered: closed, on the form, with the
\* default charge and no polling interval (polling = id of the row polled);
\* fetching = the settings request of the last opening is in flight,
\* proc = the create call handleRequestWithdrawal is awaiting.
WithdrawalModalInit ==
  [isOpen |-> FALSE, step |-> "form", withdrawalCharges |-> defaultCharges,
   fetching |-> FALSE, proc |-> 0, polling |-> 0, failureReason |-> ""]

\* DepositModal's state as first rendered; listening = the handler of
\* 'depositStatusUpdate' is registered on the socket.  deposit is the id of
\* the deposit the modal submitted, emitted the deposits whose status event
\* the server has sent (history, for the statements about them).
DepositModalInit ==
  [isOpen |-> FALSE, step |-> "amount", listening |-> FALSE,
   rejectionReason |-> "", deposit |-> 0, emitted |-> {}]

\* useAuth() before the session is known, and nothing rendered yet.
RouteInit ==
  [loading |-> TRUE, user |-> "null", role |-> "null",
   AdminRoute |-> "none", ProtectedRoute |-> "none"]

InitClient ==
  /\ now = 0
  /\ wmodal = WithdrawalModalInit
  /\ dmodal = DepositModalInit
  /\ route = RouteInit
  /\ bankView = NoBankDetails

Init ==
  /\ profiles = [id \in ProfileIds |->
                   [balance |-> 0, account_status |-> "active",
                    role |-> IF id \in Admins THEN "admin" ELSE "user"]]
  /\ deposits = <<>>
  /\ withdrawals = <<>>
  /\ procs = [p \in Procs |-> Idle]
  /\ thrown = "none"
  /\ dledger = <<>>
  /\ wledger = <<>>
  /\ settings = {}
  /\ actor = "none"
  /\ InitClient

\* ------------------------------------------------------- depositService
\* Columns of public.deposits that an insert may name.
DepositColumns ==
  {"id", "user_id", "amount", "method", "status", "transaction_id", "upi_id",
   "utr_number", "bank_name", "account_number", "screenshot_url", "admin_note",
   "created_at", "updated_at"}

\* Keys of the object create passes to insert(): a key whose value is
\* undefined is not sent.
DepositInsertKeys(screenshot) ==
  {"user_id", "amount", "status"}
  \cup (IF screenshot = "undefined" THEN {} ELSE {"screenshot"})

\* create: one INSERT, checked by the policy "Users can create deposits"
\* (auth.uid() = user_id) and refused when it names a column the table does
\* not have.  No column of the profile is consulted.
depositService_create(p, uid, userId, amount, screenshot) ==
  /\ procs[p].op = "idle"
  /\ IF uid = userId /\ DepositInsertKeys(screenshot) \subseteq DepositColumns
       THEN /\ deposits' = Append(deposits, [user_id |-> userId, amount |-> amount,
                                              status |-> "pending"])
            /\ dledger' = Append(dledger, 0)
            /\ thrown' = "none"
       ELSE /\ thrown' = "error"
            /\ UNCHANGED <<deposits, dledger>>
  /\ actor' = uid
  /\ UNCHANGED <<now, wmodal, route, bankView>>
  /\ UNCHANGED <<profiles, withdrawals, procs, wledger, settings>>

\* approve, first request: UPDATE deposits SET status = 'approved' WHERE id.
depositService_approve_status(p, uid, depositId, userId, amount) ==
  /\ procs[p].op = "idle"
  /\ deposits' = UpdateRow(deposits, depositId, CanUpdateRecord(uid), [status |-> "approved"])
  /\ procs' = [procs EXCEPT ![p] =
                 [Idle EXCEPT !.op = "deposit.approve", !.pc = "select", !.uid = uid,
                              !.id = depositId, !.userId = userId, !.amount = amount]]
  /\ thrown' = "none"
  /\ actor' = uid
  /\ UNCHANGED client
  /\ UNCHANGED <<profiles, withdrawals, dledger, wledger, settings>>

\* Second request of approve / reject / fail:
\* SELECT balance FROM profiles WHERE id = userId, .single().
CanSeeProfile(uid, userId) == uid = userId \/ IsAdmin(uid)

SelectBalance(p) ==
  /\ procs[p].op \in {"deposit.approve", "withdrawal.reject", "withdrawal.fail"}
  /\ procs[p].pc = "select"
  /\ IF CanSeeProfile(procs[p].uid, procs[p].userId)
       THEN /\ procs' = [procs EXCEPT ![p].pc = "balance",
                                      ![p].balance = profiles[procs[p].userId].balance]
            /\ thrown' = "none"
       ELSE /\ procs' = [procs EXCEPT ![p] = Idle]
            /\ thrown' = "profileError"
  /\ actor' = procs[p].uid
  /\ UNCHANGED client
  /\ UNCHANGED <<profiles, deposits, withdrawals, dledger, wledger, settings>>

\* UPDATE profiles SET balance = newBalance WHERE id = userId is applied
\* when the caller is the row's owner or an admin.
CanUpdateProfile(uid, userId) == uid = userId \/ IsAdmin(uid)

\* approve, third request: balance = parseFloat(profile.balance) + amount.
depositService_approve_balance(p) ==
  /\ procs[p].op = "deposit.approve"
  /\ procs[p].pc = "balance"
  /\ LET c == procs[p]
         applied == CanUpdateProfile(c.uid, c.userId)
         newBalance == c.balance + c.amount
     IN /\ profiles' = IF applied THEN SetBalance(c.userId, newBalance) ELSE profiles
        /\ dledger' = IF applied /\ c.id \in DOMAIN dledger
                        THEN [dledger EXCEPT ![c.id] = Bump(@)] ELSE dledger
        /\ wledger' = IF applied THEN TouchLedger(0, c.userId) ELSE wledger
        /\ procs' = IF applied THEN [TouchProcs(p, c.userId) EXCEPT ![p] = Idle]
                               ELSE [procs EXCEPT ![p] = Idle]
  /\ thrown' = "none"
  /\ actor' = procs[p].uid
  /\ UNCHANGED client
  /\ UNCHANGED <<deposits, withdrawals, settings>>

\* reject: one UPDATE deposits SET status = 'rejected' WHERE id.
depositService_reject(p, uid, depositId) ==
  /\ procs[p].op = "idle"
  /\ deposits' = UpdateRow(deposits, depositId, CanUpdateRecord(uid), [status |-> "rejected"])
  /\ thrown' = "none"
  /\ actor' = uid
  /\ UNCHANGED client
  /\ UNCHANGED <<profiles, withdrawals, procs, dledger, wledger, settings>>

\* ----------------------------------------------------- withdrawalService
\* WithdrawalModal.handleRequestWithdrawal resumes when the create call it
\* awaits returns or throws: on the returned row setStep('bank_details') and
\* startPolling(withdrawal.id), on an error setStep('failed') with the
\* error's message.  Any other step leaves the modal as it is.
WithdrawalModal_await(p) ==
  wmodal' =
    IF wmodal.proc = p /\ wmodal.step = "loading" /\ procs'[p].op = "idle"
      THEN IF thrown' = "none"
             THEN [wmodal EXCEPT !.step = "bank_details", !.proc = 0,
                                 !.polling = procs[p].id]
             ELSE [wmodal EXCEPT !.step = "failed", !.proc = 0,
                                 !.failureReason = thrown']
      ELSE wmodal

\* The balance check of create: parseFloat(profile.balance) < amount.
InsufficientBalance_reversed(balance, amount) == amount < balance

InsufficientBalance(balance, amount) == balance < amount

\* The balance create writes: parseFloat(profile.balance) - amount.
DebitedBalance_twice(balance, amount) == balance - amount - amount

DebitedBalance(balance, amount) == balance - amount

\* The balance reject and fail write: parseFloat(profile.balance) + amount.
RefundedBalance_unchanged(balance, amount) == balance

RefundedBalance(balance, amount) == balance + amount

\* Creations in flight that have not inserted their row yet.
PendingInserts ==
  Cardinality({q \in Procs : procs[q].op = "withdrawal.create"
                               /\ procs[q].pc \in {"select", "insert"}})

\* create is called: the arguments are bound and the first request is sent.
withdrawalService_create(p, uid, userId, amount, netAmount, charges) ==
  /\ procs[p].op = "idle"
  /\ procs' = [procs EXCEPT ![p] =
                 [Idle EXCEPT !.op = "withdrawal.create", !.pc = "select",
                              !.uid = uid, !.userId = userId, !.amount = amount,
                              !.netAmount = netAmount, !.charges = charges]]
  /\ thrown' = "none"
  /\ actor' = uid
  /\ UNCHANGED <<now, dmodal, route, bankView>>
  /\ UNCHANGED <<profiles, deposits, withdrawals, dledger, wledger, settings>>

\* create, first request and the checks on its answer:
\* SELECT balance, account_status; throw on hold; throw on balance < amount.
withdrawalService_create_select(p) ==
  /\ procs[p].op = "withdrawal.create"
  /\ procs[p].pc = "select"
  /\ LET c == procs[p]
     IN IF ~CanSeeProfile(c.uid, c.userId)
          THEN /\ thrown' = "profileError"
               /\ procs' = [procs EXCEPT ![p] = Idle]
          ELSE IF profiles[c.userId].account_status = "hold"
            THEN /\ thrown' = "Account is on hold"
                 /\ procs' = [procs EXCEPT ![p] = Idle]
            ELSE IF InsufficientBalance(profiles[c.userId].balance, c.amount)
              THEN /\ thrown' = "Insufficient balance"
                   /\ procs' = [procs EXCEPT ![p] = Idle]
              ELSE /\ procs' = [procs EXCEPT ![p].pc = "insert",
                                             ![p].balance = profiles[c.userId].balance,
                                             ![p].clean = TRUE]
                   /\ thrown' = "none"
  /\ actor' = procs[p].uid
  /\ UNCHANGED <<now, dmodal, route, bankView>>
  /\ UNCHANGED <<profiles, deposits, withdrawals, dledger, wledger, settings>>

\* create, second request: INSERT INTO withdrawals (..., status 'pending'),
\* checked by the policy "Users can create withdrawals".
withdrawalService_create_insert(p) ==
  /\ procs[p].op = "withdrawal.create"
  /\ procs[p].pc = "insert"
  /\ LET c == procs[p]
     IN IF c.uid = c.userId
          THEN /\ withdrawals' = Append(withdrawals,
                    [user_id |-> c.userId, amount |-> c.amount,
                     net_amount |-> c.netAmount, charges |-> c.charges,
                     status |-> "pending", admin_note |-> "null",
                     admin_transaction_ref |-> "null", payment_proof |-> "null"])
               /\ wledger' = Append(wledger,
                    [pre |-> IF c.clean THEN c.balance ELSE 0, debited |-> FALSE,
                     clean |-> c.clean, refunds |-> 0])
               /\ procs' = [procs EXCEPT ![p].pc = "balance",
                                         ![p].id = Len(withdrawals) + 1]
               /\ thrown' = "none"
          ELSE /\ procs' = [procs EXCEPT ![p] = Idle]
               /\ thrown' = "error"
               /\ UNCHANGED <<withdrawals, wledger>>
  /\ actor' = procs[p].uid
  /\ UNCHANGED <<now, dmodal, route, bankView>>
  /\ UNCHANGED <<profiles, deposits, dledger, settings>>

\* create, third request: balance = parseFloat(profile.balance) - amount,
\* from the balance read by the first request.
withdrawalService_create_balance(p) ==
  /\ procs[p].op = "withdrawal.create"
  /\ procs[p].pc = "balance"
  /\ LET c == procs[p]
         applied == CanUpdateProfile(c.uid, c.userId)
         newBalance == DebitedBalance(c.balance, c.amount)
     IN /\ profiles' = IF applied THEN SetBalance(c.userId, newBalance) ELSE profiles
        /\ wledger' = IF applied
                        THEN [TouchLedger(c.id, c.userId) EXCEPT ![c.id].debited = TRUE]
                        ELSE wledger
        /\ procs' = IF applied THEN [TouchProcs(p, c.userId) EXCEPT ![p] = Idle]
                               ELSE [procs EXCEPT ![p] = Idle]
  /\ thrown' = "none"
  /\ actor' = procs[p].uid
  /\ UNCHANGED <<now, dmodal, route, bankView>>
  /\ UNCHANGED <<deposits, withdrawals, dledger, settings>>

\* approve, hold, startProcessing and uploadPaymentProof are one request:
\* UPDATE withdrawals SET <fields> WHERE id.
UpdateWithdrawal(p, uid, withdrawalId, fields) ==
  /\ procs[p].op = "idle"
  /\ withdrawals' = UpdateRow(withdrawals, withdrawalId, CanUpdateRecord(uid), fields)
  /\ thrown' = "none"
  /\ actor' = uid
  /\ UNCHANGED client
  /\ UNCHANGED <<profiles, deposits, procs, dledger, wledger, settings>>

\* status 'completed', admin_transaction_ref = transactionRef || null.
withdrawalService_approve(p, uid, withdrawalId, transactionRef) ==
  UpdateWithdrawal(p, uid, withdrawalId,
    [status |-> "completed", admin_transaction_ref |-> transactionRef])

withdrawalService_hold(p, uid, withdrawalId) ==
  UpdateWithdrawal(p, uid, withdrawalId, [status |-> "held"])

\* processingEndTime = new Date(); setMinutes(getMinutes() + durationMinutes):
\* the time of the call moved on by durationMinutes (time is in minutes).
\* A timestamp column holds <<t>>, or <<>> for NULL.
ProcessingEndTime_now(callTime, durationMinutes) == <<callTime>>

ProcessingEndTime(callTime, durationMinutes) == <<callTime + durationMinutes>>

\* status 'processing', processing_end_time = processingEndTime.
withdrawalService_startProcessing(p, uid, withdrawalId, durationMinutes) ==
  UpdateWithdrawal(p, uid, withdrawalId,
    [status |-> "processing",
     processing_end_time |-> ProcessingEndTime(now, durationMinutes)])

\* payment_proof = base64Proof, status 'completed'.
withdrawalService_uploadPaymentProof(p, uid, withdrawalId, base64Proof) ==
  UpdateWithdrawal(p, uid, withdrawalId,
    [payment_proof |-> base64Proof, status |-> "completed"])

\* reject and fail, first request: UPDATE withdrawals SET status WHERE id.
\* The call starts clean when the row is a debited, clean, not yet refunded
\* withdrawal that is pending, processing or held.
\* note is the adminNote or reason argument; a key of the update object whose
\* value is undefined is not sent.
RefundStatus(p, uid, withdrawalId, amount, userId, op, newStatus, note) ==
  /\ procs[p].op = "idle"
  /\ withdrawals' = UpdateRow(withdrawals, withdrawalId, CanUpdateRecord(uid),
                              IF note = "undefined"
                                THEN [status |-> newStatus]
                                ELSE [status |-> newStatus, admin_note |-> note])
  /\ procs' = [procs EXCEPT ![p] =
                 [Idle EXCEPT !.op = op, !.pc = "select", !.uid = uid,
                              !.id = withdrawalId, !.userId = userId, !.amount = amount,
                              !.note = note,
                              !.clean = /\ IsAdmin(uid)
                                        /\ withdrawalId \in DOMAIN withdrawals
                                        /\ wledger[withdrawalId].debited
                                        /\ wledger[withdrawalId].clean
                                        /\ wledger[withdrawalId].refunds = 0
                                        /\ withdrawals[withdrawalId].status
                                              \notin WithdrawalTerminal]]
  /\ thrown' = "none"
  /\ actor' = uid
  /\ UNCHANGED client
  /\ UNCHANGED <<profiles, deposits, dledger, wledger, settings>>

withdrawalService_reject_status(p, uid, withdrawalId, amount, userId, adminNote) ==
  RefundStatus(p, uid, withdrawalId, amount, userId, "withdrawal.reject", "rejected",
               adminNote)

withdrawalService_fail_status(p, uid, withdrawalId, amount, userId, reason) ==
  RefundStatus(p, uid, withdrawalId, amount, userId, "withdrawal.fail", "failed",
               reason)

\* reject and fail, third request: balance = parseFloat(profile.balance) + amount.
RefundBalance(p) ==
  /\ procs[p].op \in {"withdrawal.reject", "withdrawal.fail"}
  /\ procs[p].pc = "balance"
  /\ LET c == procs[p]
         applied == CanUpdateProfile(c.uid, c.userId)
         newBalance == RefundedBalance(c.balance, c.amount)
     IN /\ profiles' = IF applied THEN SetBalance(c.userId, newBalance) ELSE profiles
        /\ wledger' = IF applied
                        THEN [i \in DOMAIN wledger |->
                                IF i = c.id
                                  THEN [wledger[i] EXCEPT !.refunds = Bump(@)]
                                  ELSE TouchLedger(c.id, c.userId)[i]]
                        ELSE wledger
        /\ procs' = IF applied THEN [TouchProcs(p, c.userId) EXCEPT ![p] = Idle]
                               ELSE [procs EXCEPT ![p] = Idle]
  /\ thrown' = "none"
  /\ actor' = procs[p].uid
  /\ UNCHANGED client
  /\ UNCHANGED <<deposits, withdrawals, dledger, settings>>

\* -------------------------------------------------------- profileService
\* setAccountStatus: one UPDATE profiles SET account_status WHERE id.
profileService_setAccountStatus(p, uid, userId, status) ==
  /\ procs[p].op = "idle"
  /\ profiles' = IF CanUpdateProfile(uid, userId)
                   THEN [profiles EXCEPT ![userId].account_status = status]
                   ELSE profiles
  /\ thrown' = "none"
  /\ actor' = uid
  /\ UNCHANGED client
  /\ UNCHANGED <<deposits, withdrawals, procs, dledger, wledger, settings>>

\* updateBalance: one UPDATE profiles SET balance = newBalance WHERE id.
\* The policies on profiles name no column: the owner's update is applied to
\* any column of the own row.
profileService_updateBalance(p, uid, userId, newBalance) ==
  /\ procs[p].op = "idle"
  /\ LET applied == CanUpdateProfile(uid, userId) /\ userId \in DOMAIN profiles
     IN /\ profiles' = IF applied THEN SetBalance(userId, newBalance) ELSE profiles
        /\ wledger' = IF applied THEN TouchLedger(0, userId) ELSE wledger
        /\ procs' = IF applied THEN TouchProcs(p, userId) ELSE procs
  /\ thrown' = "none"
  /\ actor' = uid
  /\ UNCHANGED client
  /\ UNCHANGED <<deposits, withdrawals, dledger, settings>>

\* updateProfile: UPDATE profiles SET <updates> WHERE id, .select().single():
\* throws when no row comes back.
profileService_updateProfile(p, uid, userId, updates) ==
  /\ procs[p].op = "idle"
  /\ LET applied == CanUpdateProfile(uid, userId) /\ userId \in DOMAIN profiles
         touched == applied /\ "balance" \in DOMAIN updates
     IN /\ profiles' = UpdateRow(profiles, userId, applied, updates)
        /\ wledger' = IF touched THEN TouchLedger(0, userId) ELSE wledger
        /\ procs' = IF touched THEN TouchProcs(p, userId) ELSE procs
        /\ thrown' = IF applied THEN "none" ELSE "error"
  /\ actor' = uid
  /\ UNCHANGED client
  /\ UNCHANGED <<deposits, withdrawals, dledger, settings>>

\* ------------------------------------------------------- settingsService
\* Policy "Anyone can view settings": USING (true).
CanViewSettings(uid) == TRUE

\* Policies "Admins can insert settings" / "Admins can update settings".
CanWriteSettings_anyone(uid) == TRUE

CanWriteSettings(uid) == IsAdmin(uid)

\* The rows a SELECT ... WHERE key = key returns to uid.
SettingsRows(rows, uid, key) ==
  {r \in rows : CanViewSettings(uid) /\ r.key = key}

\* get: .single() gives an error unless exactly one row matches; get then
\* returns null.
settingsService_get(rows, uid, key) ==
  IF Cardinality(SettingsRows(rows, uid, key)) = 1
    THEN (CHOOSE r \in SettingsRows(rows, uid, key) : TRUE).value
    ELSE "null"

\* getAll: the object built from all rows, settings[item.key] = item.value.
settingsService_getAll(rows, uid) ==
  [k \in {r.key : r \in {x \in rows : CanViewSettings(uid)}} |->
     (CHOOSE r \in rows : r.key = k).value]

\* INSERT ... ON CONFLICT (key) DO UPDATE SET value: the row with the key is
\* overwritten (updated_at moves past created_at), or a new row is inserted.
Upsert_append(rows, key, value) ==
  rows \cup {[key |-> key, value |-> value, updated |-> FALSE]}

Upsert(rows, key, value) ==
  IF \E r \in rows : r.key = key
    THEN {r \in rows : r.key # key}
         \cup {[key |-> key, value |-> value, updated |-> TRUE]}
    ELSE rows \cup {[key |-> key, value |-> value, updated |-> FALSE]}

\* update: one upsert; a caller the policies refuse gets the error thrown.
settingsService_update(p, uid, key, value) ==
  /\ procs[p].op = "idle"
  /\ IF CanWriteSettings(uid)
       THEN /\ settings' = Upsert(settings, key, value)
            /\ thrown' = "none"
       ELSE /\ settings' = settings
            /\ thrown' = "row-level security: settings"
  /\ actor' = uid
  /\ UNCHANGED client
  /\ UNCHANGED <<profiles, deposits, withdrawals, procs, dledger, wledger>>

\* getBankDetails: one getAll, then each field is the setting's value, or
\* the built-in default when the value is missing or empty (||).
BankDefaults ==
  [bankName |-> "State Bank of India", accountName |-> "TradeX Technologies Pvt Ltd",
   accountNumber |-> "1234567890123456", ifscCode |-> "SBIN0001234",
   branch |-> "Main Branch, Mumbai"]

BankDetailsOf(all) ==
  [f \in BankFields |->
     LET k == CHOOSE key \in BankKeySet : BankField[key] = f
     IN IF k \in DOMAIN all /\ all[k] # "" THEN all[k] ELSE BankDefaults[f]]

settingsService_getBankDetails(uid) ==
  /\ bankView' = BankDetailsOf(settingsService_getAll(settings, uid))
  /\ actor' = uid
  /\ UNCHANGED <<profiles, deposits, withdrawals, procs, thrown, dledger, wledger,
                 settings, now, wmodal, dmodal, route>>

\* updateBankDetails is called: the object is bound and the first of the
\* five update requests is sent.
settingsService_updateBankDetails(p, uid, bankDetails) ==
  /\ procs[p].op = "idle"
  /\ procs' = [procs EXCEPT ![p] =
                 [Idle EXCEPT !.op = "settings.updateBankDetails", !.pc = "update",
                              !.uid = uid, !.id = 1, !.details = bankDetails]]
  /\ thrown' = "none"
  /\ actor' = uid
  /\ UNCHANGED client
  /\ UNCHANGED <<profiles, deposits, withdrawals, dledger, wledger, settings>>

\* The next await this.update(key, value) of updateBankDetails: one upsert.
\* After the fifth the call returns; an upsert the policies refuse throws,
\* and the keys not yet written stay as they were.
settingsService_updateBankDetails_update(p) ==
  /\ procs[p].op = "settings.updateBankDetails"
  /\ procs[p].pc = "update"
  /\ LET c == procs[p]
         key == BankKeys[c.id]
     IN IF CanWriteSettings(c.uid)
          THEN /\ settings' = Upsert(settings, key, c.details[BankField[key]])
               /\ procs' = IF c.id = Len(BankKeys)
                             THEN [procs EXCEPT ![p] = Idle]
                             ELSE [procs EXCEPT ![p].id = c.id + 1]
               /\ thrown' = "none"
          ELSE /\ settings' = settings
               /\ procs' = [procs EXCEPT ![p] = Idle]
               /\ thrown' = "row-level security: settings"
  /\ actor' = procs[p].uid
  /\ UNCHANGED client
  /\ UNCHANGED <<profiles, deposits, withdrawals, dledger, wledger>>

\* ------------------------------------------------------- failed requests
\* The request a call is waiting for comes back with an error (the store is
\* unavailable): nothing is written, and the call throws the error
\* (if (profileError) throw ..., if (error) throw ..., if (balanceError) throw ...).
\* What the earlier requests of the call wrote stays written.
RequestFails(p) ==
  /\ procs[p].op \in {"deposit.approve", "withdrawal.create",
                      "withdrawal.reject", "withdrawal.fail",
                      "settings.updateBankDetails"}
  /\ procs[p].pc \in {"select", "insert", "balance", "update"}
  /\ procs' = [procs EXCEPT ![p] = Idle]
  /\ thrown' = "error"
  /\ actor' = procs[p].uid
  /\ UNCHANGED client
  /\ UNCHANGED <<profiles, deposits, withdrawals, dledger, wledger, settings>>

\* ------------------------------------------------------------ next state
\* The wallet pages call create for the signed-in user; the admin pages call
\* the other operations with the id, user_id and amount of a listed row.
\* B bounds the exploration: the users and amounts tried, the identities
\* (callers) that issue the admin pages' calls, the notes and reasons they
\* give, the rows per table,
\* the balance above which no further credit is begun, and whether a call may
\* begin while another is in flight.
Ready(B) == B.concurrent \/ \A q \in Procs : procs[q].op = "idle"

CallDepositCreate(p, B) ==
  \E u \in B.users, a \in 1..B.amount, sc \in {"undefined", "url"} :
     /\ Ready(B)
     /\ Len(deposits) < B.deposits
     /\ depositService_create(p, u, u, a, sc)
     /\ UNCHANGED dmodal

CallWithdrawalCreate(p, B) ==
  \E u \in B.users, a \in 1..B.amount, ch \in Charges :
     /\ Ready(B)
     /\ Len(withdrawals) + PendingInserts < B.withdrawals
     /\ withdrawalService_create(p, u, u, a, a - ch, ch)
     /\ UNCHANGED wmodal

CallDepositApprove(p, B) ==
  \E ad \in B.callers, d \in DOMAIN deposits :
     /\ Ready(B)
     /\ profiles[deposits[d].user_id].balance + deposits[d].amount <= B.balance
     /\ depositService_approve_status(p, ad, d, deposits[d].user_id, deposits[d].amount)

CallDepositReject(p, B) ==
  \E ad \in B.callers, d \in DOMAIN deposits :
     /\ Ready(B)
     /\ depositService_reject(p, ad, d)

CallWithdrawalApprove(p, B) ==
  \E ad \in B.callers, w \in DOMAIN withdrawals :
     /\ Ready(B)
     /\ withdrawalService_approve(p, ad, w, "null")

CallWithdrawalHold(p, B) ==
  \E ad \in B.callers, w \in DOMAIN withdrawals :
     /\ Ready(B)
     /\ withdrawalService_hold(p, ad, w)

CallWithdrawalStartProcessing(p, B) ==
  \E ad \in B.callers, w \in DOMAIN withdrawals, d \in B.durations :
     /\ Ready(B)
     /\ withdrawalService_startProcessing(p, ad, w, d)

CallWithdrawalUploadPaymentProof(p, B) ==
  \E ad \in B.callers, w \in DOMAIN withdrawals :
     /\ Ready(B)
     /\ withdrawalService_uploadPaymentProof(p, ad, w, "proof")

CallWithdrawalReject(p, B) ==
  \E ad \in B.callers, w \in DOMAIN withdrawals, note \in B.notes :
     /\ Ready(B)
     /\ profiles[withdrawals[w].user_id].balance + withdrawals[w].amount <= B.balance
     /\ withdrawalService_reject_status(p, ad, w, withdrawals[w].amount,
                                        withdrawals[w].user_id, note)

CallWithdrawalFail(p, B) ==
  \E ad \in B.callers, w \in DOMAIN withdrawals, reason \in B.reasons :
     /\ Ready(B)
     /\ profiles[withdrawals[w].user_id].balance + withdrawals[w].amount <= B.balance
     /\ withdrawalService_fail_status(p, ad, w, withdrawals[w].amount,
                                      withdrawals[w].user_id, reason)

CallSetAccountStatus(p, B) ==
  \E ad \in B.callers, u \in B.users, st \in AccountStatus :
     /\ Ready(B)
     /\ profileService_setAccountStatus(p, ad, u, st)

\* WithdrawalFormModal: netAmount = numAmount - withdrawalCharge.
NetAmount_gross(numAmount) == numAmount

NetAmount(numAmount) == numAmount - withdrawalCharge

\* WithdrawalFormModal.validateForm, the checks on the amount; balance is the
\* balance the page holds.
validateForm(numAmount, balance) ==
  /\ ~(numAmount <= 0)
  /\ ~(numAmount > balance)
  /\ ~(withdrawalCharge >= numAmount)

\* WithdrawalFormModal.handleSubmit: nothing is sent unless the form is valid,
\* then create(userId, numAmount, netAmount, withdrawalCharge, bankDetails).
WithdrawalFormModal_handleSubmit(p, B) ==
  \E u \in B.users, numAmount \in B.amounts :
     /\ Ready(B)
     /\ Len(withdrawals) + PendingInserts < B.withdrawals
     /\ validateForm(numAmount, profiles[u].balance)
     /\ withdrawalService_create(p, u, u, numAmount, NetAmount(numAmount),
                                 withdrawalCharge)
     /\ UNCHANGED wmodal

\* The wallet page's list of transactions (refreshWalletData): failureReason
\* is the row's admin_note, and the dialog of a failed withdrawal shows
\* failureReason || 'Due Bank Electronic Charge'.
FailureReasonShown(row) ==
  IF row.admin_note \in {"null", ""}
    THEN "Due Bank Electronic Charge"
    ELSE row.admin_note

\* WithdrawalModal.startPolling, on a row read as rejected:
\* setFailureReason(data.admin_note || 'Withdrawal request was rejected').
WithdrawalModal_failureReason(row) ==
  IF row.admin_note \in {"null", ""}
    THEN "Withdrawal request was rejected"
    ELSE row.admin_note

\* parseFloat of the setting values tried: a decimal numeral gives its
\* number, any other string NaN.
ParseFloat(str) ==
  CASE str = "50" -> 50
    [] str = "30" -> 30
    [] OTHER -> "NaN"

\* WithdrawalModal is opened by the wallet page (isOpen becomes true): the
\* effect on isOpen sends the settings request.
WithdrawalModal_open ==
  /\ ~wmodal.isOpen
  /\ wmodal' = [wmodal EXCEPT !.isOpen = TRUE, !.fetching = TRUE]
  /\ UNCHANGED <<profiles, deposits, withdrawals, procs, thrown, dledger, wledger,
                 settings, actor, now, dmodal, route, bankView>>

\* The charge the modal holds once getAll has answered:
\* if (settings?.withdrawal_charges) setWithdrawalCharges(parseFloat(...)).
FetchedCharges(all, held) ==
  IF "withdrawal_charges" \in DOMAIN all /\ all["withdrawal_charges"] # ""
    THEN ParseFloat(all["withdrawal_charges"])
    ELSE held

\* fetchSettings: the answer of settingsService.getAll() arrives.
WithdrawalModal_fetchSettings ==
  \E u \in Users :
     /\ wmodal.fetching
     /\ wmodal' = [wmodal EXCEPT
                     !.fetching = FALSE,
                     !.withdrawalCharges =
                        FetchedCharges(settingsService_getAll(settings, u), @)]
     /\ actor' = u
     /\ UNCHANGED <<profiles, deposits, withdrawals, procs, thrown, dledger, wledger,
                    settings, now, dmodal, route, bankView>>

\* WithdrawalModal.validateForm, the checks on the amount.
WithdrawalModal_validateForm(numAmount, balance, withdrawalCharges) ==
  /\ ~(numAmount <= 0)
  /\ ~(numAmount > balance)
  /\ ~(withdrawalCharges >= numAmount)

\* WithdrawalModal.handleRequestWithdrawal: nothing is sent unless the form
\* is valid; then setStep('loading') and
\* create(userId, numAmount, netAmount, withdrawalCharges, bankDetails),
\* with netAmount = numAmount - withdrawalCharges.
WithdrawalModal_handleRequestWithdrawal(p, B) ==
  \E u \in B.users, numAmount \in B.amounts :
     /\ Ready(B)
     /\ Len(withdrawals) + PendingInserts < B.withdrawals
     /\ wmodal.isOpen /\ wmodal.step = "form"
     /\ WithdrawalModal_validateForm(numAmount, profiles[u].balance,
                                     wmodal.withdrawalCharges)
     /\ withdrawalService_create(p, u, u, numAmount,
                                 numAmount - wmodal.withdrawalCharges,
                                 wmodal.withdrawalCharges)
     /\ wmodal' = [wmodal EXCEPT !.step = "loading", !.proc = p]

\* resetModal, behind the close buttons of the form, bank_details, success
\* and failed steps: back to the form, polling interval cleared, onClose().
\* The charge held and a settings request in flight stay as they are.
WithdrawalModal_resetModal ==
  /\ wmodal.isOpen
  /\ wmodal.step \in {"form", "bank_details", "success", "failed"}
  /\ wmodal' = [wmodal EXCEPT !.isOpen = FALSE, !.step = "form", !.polling = 0,
                              !.failureReason = ""]
  /\ UNCHANGED <<profiles, deposits, withdrawals, procs, thrown, dledger, wledger,
                 settings, actor, now, dmodal, route, bankView>>

\* Policy "Users can view own withdrawals" (admins may view all).
CanSeeWithdrawal(uid, row) == uid = row.user_id \/ IsAdmin(uid)

\* One tick of the interval set by startPolling, with its answer:
\* SELECT * FROM withdrawals WHERE id, .single().  'completed' gives the
\* success step and 'rejected' the failed step with the reason, both clearing
\* the interval; any other status, and an error, leave the modal as it is.
WithdrawalModal_poll ==
  \E u \in Users :
     /\ wmodal.polling # 0
     /\ LET w == wmodal.polling
            found == w \in DOMAIN withdrawals /\ CanSeeWithdrawal(u, withdrawals[w])
        IN wmodal' =
             IF found /\ withdrawals[w].status = "completed"
               THEN [wmodal EXCEPT !.step = "success", !.polling = 0]
               ELSE IF found /\ withdrawals[w].status = "rejected"
                 THEN [wmodal EXCEPT !.step = "failed", !.polling = 0,
                                     !.failureReason =
                                        WithdrawalModal_failureReason(withdrawals[w])]
                 ELSE wmodal
     /\ actor' = u
     /\ UNCHANGED <<profiles, deposits, withdrawals, procs, thrown, dledger, wledger,
                    settings, now, dmodal, route, bankView>>

\* ----------------------------------------------------------- DepositModal
\* The wallet page opens the deposit modal and the user reaches the proof
\* step (handleContinueToProof).
DepositModal_open ==
  /\ ~dmodal.isOpen
  /\ dmodal' = [dmodal EXCEPT !.isOpen = TRUE, !.step = "upload_proof"]
  /\ UNCHANGED <<profiles, deposits, withdrawals, procs, thrown, dledger, wledger,
                 settings, actor, now, wmodal, route, bankView>>

\* walletService.deposit(amount, ...): the request that creates the pending
\* deposit of the signed-in user.
walletService_deposit(p, userId, amount) ==
  depositService_create(p, userId, userId, amount, "undefined")

\* handleSubmitDeposit: setStep('processing'), then the deposit request; an
\* error puts the modal back on 'upload_proof'.  The effect on
\* [isOpen, step] runs with the new step: it registers the handler of
\* 'depositStatusUpdate' when wsService has a socket (socket), and returns
\* without registering when it has none.
DepositModal_handleSubmitDeposit(p, B) ==
  \E u \in B.users, a \in 1..B.amount, socket \in BOOLEAN :
     /\ Ready(B)
     /\ Len(deposits) < B.deposits
     /\ dmodal.isOpen /\ dmodal.step = "upload_proof"
     /\ walletService_deposit(p, u, a)
     /\ dmodal' = IF thrown' = "none"
                    THEN [dmodal EXCEPT !.step = "processing", !.listening = socket,
                                        !.deposit = Len(deposits')]
                    ELSE dmodal

\* The server announces a deposit that has become approved or rejected, once:
\* handleDepositStatusUpdate runs if it is registered and the event's userId
\* is the modal's; an event no handler is registered for is dropped.
DepositModal_handleDepositStatusUpdate(status) ==
  IF status = "approved"
    THEN [dmodal EXCEPT !.step = "success"]
    ELSE IF status = "rejected"
      THEN [dmodal EXCEPT !.step = "failed", !.rejectionReason = "No reason provided"]
      ELSE dmodal

EmitDepositStatusUpdate ==
  \E d \in DOMAIN deposits :
     /\ deposits[d].status \in DepositTerminal
     /\ d \notin dmodal.emitted
     /\ dmodal' = [(IF dmodal.listening /\ deposits[d].user_id \in Users
                      THEN DepositModal_handleDepositStatusUpdate(deposits[d].status)
                      ELSE dmodal)
                   EXCEPT !.emitted = @ \cup {d}]
     /\ UNCHANGED <<profiles, deposits, withdrawals, procs, thrown, dledger, wledger,
                    settings, actor, now, wmodal, route, bankView>>

\* resetModal (after the success and failed steps, or handleClose): back to
\* 'amount', closed; the effect's cleanup removes the handler.  handleClose
\* does nothing while the step is 'processing'.
DepositModal_resetModal ==
  /\ dmodal.isOpen
  /\ dmodal.step # "processing"
  /\ dmodal' = [dmodal EXCEPT !.isOpen = FALSE, !.step = "amount",
                              !.listening = FALSE, !.rejectionReason = "",
                              !.deposit = 0]
  /\ UNCHANGED <<profiles, deposits, withdrawals, procs, thrown, dledger, wledger,
                 settings, actor, now, wmodal, route, bankView>>

\* ----------------------------------------------------------- route guards
\* AdminRoute: what it returns for the values of useAuth(); role is
\* profile?.role, "null" when there is no profile.
AdminRoute_roleFirst(loading, user, role) ==
  IF loading THEN "LoadingScreen"
  ELSE IF role # "admin" THEN "/dashboard"
  ELSE IF user = "null" THEN "/login"
  ELSE "children"

AdminRoute(loading, user, role) ==
  IF loading THEN "LoadingScreen"
  ELSE IF user = "null" THEN "/login"
  ELSE IF role # "admin" THEN "/dashboard"
  ELSE "children"

ProtectedRoute(loading, user) ==
  IF loading THEN "LoadingScreen"
  ELSE IF user = "null" THEN "/login"
  ELSE "children"

\* The auth context changes: any of loading, user and profile.
AuthChange ==
  /\ \E l \in BOOLEAN, u \in ProfileIds \cup {"null"}, r \in Roles \cup {"null"} :
        route' = [route EXCEPT !.loading = l, !.user = u, !.role = r]
  /\ UNCHANGED <<profiles, deposits, withdrawals, procs, thrown, dledger, wledger,
                 settings, actor, now, wmodal, dmodal, bankView>>

\* A guard is rendered with the current values of useAuth().
RenderAdminRoute ==
  /\ route' = [route EXCEPT
                 !.AdminRoute = AdminRoute(route.loading, route.user, route.role)]
  /\ UNCHANGED <<profiles, deposits, withdrawals, procs, thrown, dledger, wledger,
                 settings, actor, now, wmodal, dmodal, bankView>>

RenderProtectedRoute ==
  /\ route' = [route EXCEPT
                 !.ProtectedRoute = ProtectedRoute(route.loading, route.user)]
  /\ UNCHANGED <<profiles, deposits, withdrawals, procs, thrown, dledger, wledger,
                 settings, actor, now, wmodal, dmodal, bankView>>

\* The admin's settings page saves the withdrawal charge.
ChargeValues == {"50", "30"}

CallChargesUpdate(p, B) ==
  \E ad \in B.callers, v \in ChargeValues :
     /\ Ready(B)
     /\ settingsService_update(p, ad, "withdrawal_charges", v)

\* Any client can send the profile and settings requests with its own identity.
ProfileUpdates(B) ==
  {[role |-> r] : r \in Roles} \cup {[balance |-> b] : b \in 0..B.balance}

CallUpdateBalance(p, B) ==
  \E uid \in B.callers, u \in B.users, b \in 0..B.balance :
     /\ Ready(B)
     /\ profileService_updateBalance(p, uid, u, b)

CallUpdateProfile(p, B) ==
  \E uid \in B.callers, u \in B.users, updates \in ProfileUpdates(B) :
     /\ Ready(B)
     /\ profileService_updateProfile(p, uid, u, updates)

CallSettingsUpdate(p, B) ==
  \E uid \in B.callers, k \in SettingKeys, v \in SettingValues :
     /\ Ready(B)
     /\ settingsService_update(p, uid, k, v)

Call(p, B) ==
  \/ CallDepositCreate(p, B)
  \/ CallWithdrawalCreate(p, B)
  \/ CallDepositApprove(p, B)
  \/ CallDepositReject(p, B)
  \/ CallWithdrawalApprove(p, B)
  \/ CallWithdrawalHold(p, B)
  \/ CallWithdrawalStartProcessing(p, B)
  \/ CallWithdrawalUploadPaymentProof(p, B)
  \/ CallWithdrawalReject(p, B)
  \/ CallWithdrawalFail(p, B)
  \/ CallSetAccountStatus(p, B)

Continue(p) ==
  \/ SelectBalance(p)
  \/ depositService_approve_balance(p)
  \/ withdrawalService_create_select(p) /\ WithdrawalModal_await(p)
  \/ withdrawalService_create_insert(p) /\ WithdrawalModal_await(p)
  \/ withdrawalService_create_balance(p) /\ WithdrawalModal_await(p)
  \/ RefundBalance(p)

NoCallInFlight == \A q \in Procs : procs[q].op = "idle"

\* Calls made one after the other: a call begins when the previous one has
\* returned.
SeqBounds ==
  [concurrent |-> FALSE, users |-> Users, callers |-> Admins,
   notes |-> {"undefined"}, reasons |-> {"reason"}, durations |-> {1},
   amount |-> MaxAmount, deposits |-> MaxDeposits,
   withdrawals |-> MaxWithdrawals, balance |-> MaxBalance]

Next ==
  \E p \in Procs :
     \/ Call(p, SeqBounds)
     \/ Continue(p)

Spec == Init /\ [][Next]_vars

\* Calls made by independent clients: the requests of the calls in flight
\* interleave in any order.
ConcBounds ==
  [concurrent |-> TRUE, users |-> Users, callers |-> Admins,
   notes |-> {"undefined"}, reasons |-> {"reason"}, durations |-> {1},
   amount |-> ConcAmount, deposits |-> ConcDeposits,
   withdrawals |-> ConcWithdrawals, balance |-> ConcBalance]

NextConc ==
  \E p \in Procs :
     \/ Call(p, ConcBounds)
     \/ Continue(p)

SpecConc == Init /\ [][NextConc]_vars

\* Calls made one after the other against a store whose requests may fail.
ErrBounds == [ConcBounds EXCEPT !.concurrent = FALSE]

NextErr ==
  \E p \in Procs :
     \/ Call(p, ErrBounds)
     \/ Continue(p)
     \/ RequestFails(p)

SpecErr == Init /\ [][NextErr]_vars

\* The scenario: a user whose approved deposit has brought the balance to
\* ScenarioBalance submits the withdrawal form; an admin processes, holds,
\* rejects or fails the withdrawals, giving a reason.
ScenarioReasons == {"bank rejected", "limit exceeded", ""}

ScenarioBounds ==
  [concurrent |-> FALSE, users |-> Users, callers |-> Admins,
   notes |-> {"undefined"}, reasons |-> ScenarioReasons, durations |-> {1},
   amounts |-> {ScenarioAmount, withdrawalCharge, ScenarioBalance + ScenarioAmount},
   withdrawals |-> ScenarioWithdrawals, balance |-> ScenarioBalance]

InitScenario ==
  /\ profiles = [id \in ProfileIds |->
                   [balance |-> IF id \in Users THEN ScenarioBalance ELSE 0,
                    account_status |-> "active",
                    role |-> IF id \in Admins THEN "admin" ELSE "user"]]
  /\ deposits = <<[user_id |-> CHOOSE u \in Users : TRUE, amount |-> ScenarioBalance,
                    status |-> "approved"]>>
  /\ withdrawals = <<>>
  /\ procs = [p \in Procs |-> Idle]
  /\ thrown = "none"
  /\ dledger = <<1>>
  /\ wledger = <<>>
  /\ settings = {}
  /\ actor = "none"
  /\ InitClient

NextScenario ==
  \E p \in Procs :
     \/ WithdrawalFormModal_handleSubmit(p, ScenarioBounds)
     \/ CallWithdrawalStartProcessing(p, ScenarioBounds)
     \/ CallWithdrawalHold(p, ScenarioBounds)
     \/ CallWithdrawalReject(p, ScenarioBounds)
     \/ CallWithdrawalFail(p, ScenarioBounds)
     \/ withdrawalService_create_select(p) /\ WithdrawalModal_await(p)
     \/ withdrawalService_create_insert(p) /\ WithdrawalModal_await(p)
     \/ withdrawalService_create_balance(p) /\ WithdrawalModal_await(p)
     \/ SelectBalance(p)
     \/ RefundBalance(p)

SpecScenario == InitScenario /\ [][NextScenario]_vars

\* Calls made one after the other by clients of any identity: every service
\* function is exported to every client, and only the policies of the
\* database stand between a request and the tables.
RlsBounds ==
  [ErrBounds EXCEPT !.callers = Identities, !.withdrawals = RlsWithdrawals]

NextRls ==
  \E p \in Procs :
     \/ Call(p, RlsBounds)
     \/ Continue(p)
     \/ CallUpdateBalance(p, RlsBounds)
     \/ CallUpdateProfile(p, RlsBounds)

SpecRls == Init /\ [][NextRls]_vars

\* The settings requests of clients of any identity, and the profile updates
\* that change who is an admin.
NextSettings ==
  \E p \in Procs :
     \/ CallSettingsUpdate(p, RlsBounds)
     \/ CallUpdateProfile(p, RlsBounds)

SpecSettings == Init /\ [][NextSettings]_vars

\* Calls made one after the other by an admin client that chooses every
\* argument of create, approve, reject and fail itself: the functions take
\* the amounts and the user id as parameters beside the record's id.
ArgsBounds == [SeqBounds EXCEPT !.withdrawals = ArgsWithdrawals]

CallWithdrawalCreateWith(p, B) ==
  \E u \in B.users, a \in 1..B.amount, na \in 0..B.amount, ch \in 0..ArgsCharge :
     /\ Ready(B)
     /\ Len(withdrawals) + PendingInserts < B.withdrawals
     /\ withdrawalService_create(p, u, u, a, na, ch)
     /\ UNCHANGED wmodal

CallDepositApproveWith(p, B) ==
  \E ad \in B.callers, d \in DOMAIN deposits, u \in ProfileIds, a \in 1..B.amount :
     /\ Ready(B)
     /\ profiles[u].balance + a <= B.balance
     /\ depositService_approve_status(p, ad, d, u, a)

CallWithdrawalRejectWith(p, B) ==
  \E ad \in B.callers, w \in DOMAIN withdrawals, u \in ProfileIds,
     a \in 1..B.amount, note \in B.notes :
     /\ Ready(B)
     /\ profiles[u].balance + a <= B.balance
     /\ withdrawalService_reject_status(p, ad, w, a, u, note)

CallWithdrawalFailWith(p, B) ==
  \E ad \in B.callers, w \in DOMAIN withdrawals, u \in ProfileIds,
     a \in 1..B.amount, reason \in B.reasons :
     /\ Ready(B)
     /\ profiles[u].balance + a <= B.balance
     /\ withdrawalService_fail_status(p, ad, w, a, u, reason)

NextArgs ==
  \E p \in Procs :
     \/ CallDepositCreate(p, ArgsBounds)
     \/ CallDepositApproveWith(p, ArgsBounds)
     \/ CallWithdrawalCreateWith(p, ArgsBounds)
     \/ CallWithdrawalRejectWith(p, ArgsBounds)
     \/ CallWithdrawalFailWith(p, ArgsBounds)
     \/ Continue(p)

SpecArgs == Init /\ [][NextArgs]_vars

\* The rows the schema inserts into settings, for the keys given.
DefaultSettings ==
  [withdrawal_charges |-> "50", bank_name |-> "State Bank of India",
   account_name |-> "TradeX Technologies Pvt Ltd",
   account_number |-> "1234567890123456", ifsc_code |-> "SBIN0001234",
   bank_branch |-> "Main Branch, Mumbai"]

SeededSettings(keys) ==
  {[key |-> k, value |-> DefaultSettings[k], updated |-> FALSE] : k \in keys}

\* The two withdrawal forms and the admin's charge setting: the user of the
\* scenario opens, submits and closes the forms, the admin saves the charge,
\* and a client calls create with arguments of its own.
FormsBounds ==
  [concurrent |-> FALSE, users |-> Users, callers |-> Admins,
   amounts |-> {ScenarioAmount, withdrawalCharge, ScenarioBalance + ScenarioAmount},
   amount |-> MaxAmount, withdrawals |-> FormsWithdrawals,
   balance |-> ScenarioBalance]

InitForms ==
  /\ profiles = [id \in ProfileIds |->
                   [balance |-> IF id \in Users THEN ScenarioBalance ELSE 0,
                    account_status |-> "active",
                    role |-> IF id \in Admins THEN "admin" ELSE "user"]]
  /\ deposits = <<[user_id |-> CHOOSE u \in Users : TRUE, amount |-> ScenarioBalance,
                    status |-> "approved"]>>
  /\ withdrawals = <<>>
  /\ procs = [p \in Procs |-> Idle]
  /\ thrown = "none"
  /\ dledger = <<1>>
  /\ wledger = <<>>
  /\ settings = SeededSettings({"withdrawal_charges"})
  /\ actor = "none"
  /\ InitClient

NextForms ==
  \E p \in Procs :
     \/ WithdrawalFormModal_handleSubmit(p, FormsBounds)
     \/ WithdrawalModal_open
     \/ WithdrawalModal_fetchSettings
     \/ WithdrawalModal_handleRequestWithdrawal(p, FormsBounds)
     \/ WithdrawalModal_resetModal
     \/ CallChargesUpdate(p, FormsBounds)
     \/ CallWithdrawalCreateWith(p, FormsBounds)
     \/ withdrawalService_create_select(p) /\ WithdrawalModal_await(p)
     \/ withdrawalService_create_insert(p) /\ WithdrawalModal_await(p)
     \/ withdrawalService_create_balance(p) /\ WithdrawalModal_await(p)

SpecForms == InitForms /\ [][NextForms]_vars

\* The withdrawal modal and the admin: the user of the scenario requests a
\* withdrawal through WithdrawalModal, which then polls the row, while the
\* admin moves the row through its statuses.  The interval keeps ticking and
\* every request gets its answer: the poll and the steps of the calls in
\* flight are taken whenever they stay possible.
PollBounds ==
  [concurrent |-> FALSE, users |-> Users, callers |-> Admins,
   notes |-> {"undefined", "bank rejected"}, reasons |-> {"bank rejected"},
   durations |-> {1},
   amounts |-> {ScenarioAmount}, withdrawals |-> PollWithdrawals,
   balance |-> ScenarioBalance]

NextPoll ==
  \E p \in Procs :
     \/ WithdrawalModal_open
     \/ WithdrawalModal_fetchSettings
     \/ WithdrawalModal_handleRequestWithdrawal(p, PollBounds)
     \/ WithdrawalModal_poll
     \/ WithdrawalModal_resetModal
     \/ CallWithdrawalApprove(p, PollBounds)
     \/ CallWithdrawalStartProcessing(p, PollBounds)
     \/ CallWithdrawalHold(p, PollBounds)
     \/ CallWithdrawalReject(p, PollBounds)
     \/ CallWithdrawalFail(p, PollBounds)
     \/ withdrawalService_create_select(p) /\ WithdrawalModal_await(p)
     \/ withdrawalService_create_insert(p) /\ WithdrawalModal_await(p)
     \/ withdrawalService_create_balance(p) /\ WithdrawalModal_await(p)
     \/ SelectBalance(p)
     \/ RefundBalance(p)

SpecPoll ==
  /\ InitForms
  /\ [][NextPoll]_vars
  /\ WF_vars(WithdrawalModal_poll)
  /\ \A p \in Procs :
       /\ WF_vars(withdrawalService_create_select(p) /\ WithdrawalModal_await(p))
       /\ WF_vars(withdrawalService_create_insert(p) /\ WithdrawalModal_await(p))
       /\ WF_vars(withdrawalService_create_balance(p) /\ WithdrawalModal_await(p))
       /\ WF_vars(SelectBalance(p))
       /\ WF_vars(RefundBalance(p))

\* The deposit modal, the admin and the server's status events: the user
\* submits deposits through DepositModal, the admin approves or rejects them,
\* and the server announces each decided deposit.  The announcement and the
\* answers of the requests in flight come whenever they stay possible.
DepositModalBounds == [SeqBounds EXCEPT !.deposits = ModalDeposits]

NextDeposit ==
  \E p \in Procs :
     \/ DepositModal_open
     \/ DepositModal_handleSubmitDeposit(p, DepositModalBounds)
     \/ EmitDepositStatusUpdate
     \/ DepositModal_resetModal
     \/ CallDepositApprove(p, DepositModalBounds)
     \/ CallDepositReject(p, DepositModalBounds)
     \/ SelectBalance(p)
     \/ depositService_approve_balance(p)

SpecDeposit ==
  /\ Init
  /\ [][NextDeposit]_vars
  /\ WF_vars(EmitDepositStatusUpdate)
  /\ \A p \in Procs :
       /\ WF_vars(SelectBalance(p))
       /\ WF_vars(depositService_approve_balance(p))

\* The clock and the admin: a withdrawal of the scenario has been requested
\* (ScenarioAmount debited, row pending, no processing deadline yet); time
\* passes, and the admin starts processing with a duration, holds, approves,
\* rejects or fails.  Nothing in the client or the schema runs on a timer.
Tick ==
  /\ now < MaxNow
  /\ now' = now + 1
  /\ UNCHANGED <<profiles, deposits, withdrawals, procs, thrown, dledger, wledger,
                 settings, actor, wmodal, dmodal, route, bankView>>

ClockBounds ==
  [concurrent |-> FALSE, users |-> Users, callers |-> Admins,
   notes |-> {"undefined"}, reasons |-> {"bank rejected"}, durations |-> Durations,
   withdrawals |-> 1, balance |-> ScenarioBalance]

InitClock ==
  /\ profiles = [id \in ProfileIds |->
                   [balance |-> IF id \in Users THEN ScenarioBalance - ScenarioAmount
                                                ELSE 0,
                    account_status |-> "active",
                    role |-> IF id \in Admins THEN "admin" ELSE "user"]]
  /\ deposits = <<[user_id |-> CHOOSE u \in Users : TRUE, amount |-> ScenarioBalance,
                    status |-> "approved"]>>
  /\ withdrawals = <<[user_id |-> CHOOSE u \in Users : TRUE,
                       amount |-> ScenarioAmount,
                       net_amount |-> ScenarioAmount - withdrawalCharge,
                       charges |-> withdrawalCharge, status |-> "pending",
                       admin_note |-> "null", admin_transaction_ref |-> "null",
                       payment_proof |-> "null", processing_end_time |-> <<>>]>>
  /\ procs = [p \in Procs |-> Idle]
  /\ thrown = "none"
  /\ dledger = <<1>>
  /\ wledger = <<[pre |-> ScenarioBalance, debited |-> TRUE, clean |-> TRUE,
                  refunds |-> 0]>>
  /\ settings = SeededSettings({"withdrawal_charges"})
  /\ actor = "none"
  /\ InitClient

NextClock ==
  \E p \in Procs :
     \/ Tick
     \/ CallWithdrawalStartProcessing(p, ClockBounds)
     \/ CallWithdrawalHold(p, ClockBounds)
     \/ CallWithdrawalApprove(p, ClockBounds)
     \/ CallWithdrawalReject(p, ClockBounds)
     \/ CallWithdrawalFail(p, ClockBounds)
     \/ SelectBalance(p)
     \/ RefundBalance(p)

SpecClock == InitClock /\ [][NextClock]_vars

\* The route guards under every change of the auth context.
NextRoute ==
  \/ AuthChange
  \/ RenderAdminRoute
  \/ RenderProtectedRoute

SpecRoute == Init /\ [][NextRoute]_vars

\* The bank details: the admin saves a new set of bank details on the
\* settings page while clients of any identity read them; an update request
\* may fail.
NewBankDetails ==
  [bankName |-> "Punjab National Bank", accountName |-> "TradeX Payments",
   accountNumber |-> "6543210987654321", ifscCode |-> "PUNB0123456",
   branch |-> "Connaught Place, Delhi"]

CallUpdateBankDetails(p, B) ==
  \E ad \in B.callers :
     /\ Ready(B)
     /\ settingsService_updateBankDetails(p, ad, NewBankDetails)

CallGetBankDetails ==
  \E uid \in Identities : settingsService_getBankDetails(uid)

InitBank ==
  /\ profiles = [id \in ProfileIds |->
                   [balance |-> 0, account_status |-> "active",
                    role |-> IF id \in Admins THEN "admin" ELSE "user"]]
  /\ deposits = <<>>
  /\ withdrawals = <<>>
  /\ procs = [p \in Procs |-> Idle]
  /\ thrown = "none"
  /\ dledger = <<>>
  /\ wledger = <<>>
  /\ settings = SeededSettings(BankKeySet)
  /\ actor = "none"
  /\ InitClient

NextBank ==
  \/ \E p \in Procs :
        \/ CallUpdateBankDetails(p, RlsBounds)
        \/ settingsService_updateBankDetails_update(p)
        \/ RequestFails(p)
  \/ CallGetBankDetails

SpecBank == InitBank /\ [][NextBank]_vars

\* ------------------------------------------------------------- properties
RECURSIVE SumDeposits(_, _, _)
SumDeposits(i, userId, statuses) ==
  IF i = 0 THEN 0
  ELSE SumDeposits(i - 1, userId, statuses)
       + (IF deposits[i].user_id = userId /\ deposits[i].status \in statuses
            THEN deposits[i].amount ELSE 0)

RECURSIVE SumWithdrawals(_, _, _)
SumWithdrawals(i, userId, statuses) ==
  IF i = 0 THEN 0
  ELSE SumWithdrawals(i - 1, userId, statuses)
       + (IF withdrawals[i].user_id = userId /\ withdrawals[i].status \in statuses
            THEN withdrawals[i].amount ELSE 0)

\* C1: whenever no call is in flight, every profile's balance equals the sum
\* of its approved deposits minus the sum of the gross amounts of its
\* withdrawals that are neither rejected nor failed.
C1_BalanceReconciles ==
  NoCallInFlight =>
    \A u \in ProfileIds :
       profiles[u].balance =
         SumDeposits(Len(deposits), u, {"approved"})
         - SumWithdrawals(Len(withdrawals), u, WithdrawalStatus \ {"rejected", "failed"})

\* A creation that has inserted its row: nothing after the insert makes it fail.
Succeeding(p) == procs[p].op = "withdrawal.create" /\ procs[p].pc = "balance"

\* C2: two concurrent creations on one profile that read the same balance and
\* whose gross amounts together exceed it never both succeed.
C2_AtMostOneSucceeds ==
  \A p, q \in Procs :
     (/\ p # q
      /\ Succeeding(p) /\ Succeeding(q)
      /\ procs[p].userId = procs[q].userId
      /\ procs[p].balance = procs[q].balance
      /\ procs[p].amount + procs[q].amount > procs[p].balance) => FALSE

\* C3: the gross amount of a withdrawal is credited back at most once, however
\* often reject and fail are called for it.
C3_RefundedAtMostOnce ==
  \A w \in DOMAIN wledger : wledger[w].refunds <= 1

\* C4: the amount of a deposit is credited at most once, however often approve
\* is called for it.
C4_CreditedAtMostOnce ==
  \A d \in DOMAIN dledger : dledger[d] <= 1

\* Process p takes the select step of a creation whose gross amount exceeds
\* the balance the step reads (the caller is allowed to read the profile).
CreateOverBalance(p) ==
  /\ procs[p].op = "withdrawal.create"
  /\ CanSeeProfile(procs[p].uid, procs[p].userId)
  /\ procs[p].pc = "select"
  /\ procs'[p].pc # "select"
  /\ procs[p].amount > profiles[procs[p].userId].balance

\* C5, as claimed: a creation with a gross amount above the current balance
\* fails with the insufficient-balance error, inserts no row and leaves the
\* balance unchanged.
C5_InsufficientBalance ==
  [][\A p \in Procs :
        CreateOverBalance(p) =>
          /\ thrown' = "Insufficient balance"
          /\ procs'[p] = Idle
          /\ withdrawals' = withdrawals
          /\ profiles' = profiles]_vars

\* C5, amended: a creation with a gross amount above the current balance
\* fails, with the insufficient-balance error when the account is active and
\* with the account-on-hold error when it is on hold; it inserts no row and
\* leaves the balance unchanged.
C5_FailsOverBalance ==
  [][\A p \in Procs :
        CreateOverBalance(p) =>
          /\ thrown' = IF profiles[procs[p].userId].account_status = "hold"
                         THEN "Account is on hold" ELSE "Insufficient balance"
          /\ procs'[p] = Idle
          /\ withdrawals' = withdrawals
          /\ profiles' = profiles]_vars

\* A creation over the balance of an active account has just been refused.
C5_Witness ==
  /\ thrown = "Insufficient balance"
  /\ \E u \in Users : profiles[u].account_status = "active" /\ profiles[u].balance < MaxAmount
  /\ NoCallInFlight

\* Process p writes the refund of a reject or fail call that began on a
\* debited withdrawal in status pending, processing or held, with no balance
\* write to the owner's profile other than the withdrawal's own debit between
\* the creation's read and this write.
CleanRefund(p) ==
  /\ procs[p].op \in {"withdrawal.reject", "withdrawal.fail"}
  /\ procs[p].pc = "balance"
  /\ procs'[p] = Idle
  /\ procs[p].clean
  /\ wledger[procs[p].id].clean

\* C6: rejecting or failing a withdrawal, with no other balance change of the
\* profile since the creation, puts the balance back to the value it had
\* before the creation.
C6_RefundRestores ==
  [][\A p \in Procs :
        CleanRefund(p) =>
          profiles'[withdrawals[procs[p].id].user_id].balance = wledger[procs[p].id].pre]_vars

\* A withdrawal has been created, debited and then rejected or failed with no
\* other balance change, and the balance is back at its value before the creation.
C6_Witness ==
  \E w \in DOMAIN withdrawals :
     /\ withdrawals[w].status \in {"rejected", "failed"}
     /\ wledger[w].debited /\ wledger[w].clean /\ wledger[w].refunds = 1
     /\ withdrawals[w].amount > 0
     /\ profiles[withdrawals[w].user_id].balance = wledger[w].pre
     /\ NoCallInFlight

\* C7: a record in a terminal status (withdrawal completed, rejected or failed;
\* deposit approved or rejected) never changes status again.
C7_TerminalIsFinal ==
  [][/\ \A w \in DOMAIN withdrawals :
          withdrawals[w].status \in WithdrawalTerminal
            => withdrawals'[w].status = withdrawals[w].status
     /\ \A d \in DOMAIN deposits :
          deposits[d].status \in DepositTerminal
            => deposits'[d].status = deposits[d].status]_vars

AllowedWithdrawalTransitions ==
  {<<"pending", "processing">>, <<"processing", "completed">>}
  \cup ({"pending", "processing"} \X {"held"})
  \cup ({"pending", "processing", "held"} \X {"rejected", "failed"})

\* C8: every change of a withdrawal's status is one of the allowed transitions.
C8_AllowedTransitionsOnly ==
  [][\A w \in DOMAIN withdrawals :
        withdrawals'[w].status # withdrawals[w].status
          => <<withdrawals[w].status, withdrawals'[w].status>> \in AllowedWithdrawalTransitions]_vars

\* C9: no withdrawal row is inserted while its owner's account is on hold.
C9_NoWithdrawalOnHold ==
  [][Len(withdrawals') > Len(withdrawals)
       => profiles[withdrawals'[Len(withdrawals')].user_id].account_status # "hold"]_vars

\* C10: no deposit row is inserted while its owner's account is on hold.
C10_NoDepositOnHold ==
  [][Len(deposits') > Len(deposits)
       => profiles[deposits'[Len(deposits')].user_id].account_status # "hold"]_vars

C12_PendingIsDebited ==
  \A w \in DOMAIN withdrawals :
     withdrawals[w].status = "pending" => wledger[w].debited

\* C13: in every state, the intermediate states of reject and fail included,
\* the refund of every rejected or failed withdrawal has been credited.
C13_RefundBeforeStatus ==
  \A w \in DOMAIN withdrawals :
     withdrawals[w].status \in {"rejected", "failed"} => wledger[w].refunds >= 1

\* The sum of the deltas of the balance writes applied to userId's profile:
\* the credits of its deposits, the debits of its withdrawals and their refunds.
RECURSIVE CreditDeltas(_, _)
CreditDeltas(i, userId) ==
  IF i = 0 THEN 0
  ELSE CreditDeltas(i - 1, userId)
       + (IF deposits[i].user_id = userId THEN dledger[i] * deposits[i].amount ELSE 0)

RECURSIVE WithdrawalDeltas(_, _)
WithdrawalDeltas(i, userId) ==
  IF i = 0 THEN 0
  ELSE WithdrawalDeltas(i - 1, userId)
       + (IF withdrawals[i].user_id = userId
            THEN wledger[i].refunds * withdrawals[i].amount
                 - (IF wledger[i].debited THEN withdrawals[i].amount ELSE 0)
            ELSE 0)

\* No history counter has reached the value at which it stops counting.
CountersExact ==
  /\ \A d \in DOMAIN dledger : dledger[d] < MaxCount
  /\ \A w \in DOMAIN wledger : wledger[w].refunds < MaxCount

\* C14: when all calls have returned, the balance of every profile is its
\* initial balance (0) plus the deltas of all balance writes applied to it,
\* whatever the interleaving of the calls (no lost update).
C14_NoLostUpdate ==
  (NoCallInFlight /\ CountersExact) =>
    \A u \in ProfileIds :
       profiles[u].balance =
         CreditDeltas(Len(deposits), u) + WithdrawalDeltas(Len(withdrawals), u)

\* Process p throws out of approve, create, reject or fail in this step.
Throws(p) ==
  /\ procs[p].op \in {"deposit.approve", "withdrawal.create",
                      "withdrawal.reject", "withdrawal.fail"}
  /\ procs'[p] = Idle
  /\ thrown' # "none"

\* The call p is in has changed its record and not the balance: the row of a
\* creation is inserted; the deposit is approved by an approval that was
\* applied, with no credit written for it; the withdrawal is rejected or
\* failed by a call that was applied, with its debit written and no refund.
PartlyDone(p) ==
  LET c == procs[p]
  IN CASE c.op = "withdrawal.create" -> c.pc = "balance"
       [] c.op = "deposit.approve" ->
            /\ IsAdmin(c.uid) /\ c.id \in DOMAIN deposits
            /\ dledger[c.id] = 0
       [] c.op \in {"withdrawal.reject", "withdrawal.fail"} ->
            /\ IsAdmin(c.uid) /\ c.id \in DOMAIN withdrawals
            /\ wledger[c.id].debited /\ wledger[c.id].refunds = 0
       [] OTHER -> FALSE

\* C15: a call of approve, create, reject or fail that throws has changed
\* neither its record nor the balance.
C15_AllOrNothing ==
  [][\A p \in Procs : Throws(p) => ~PartlyDone(p)]_vars

\* C16: a request issued with a non-admin identity never changes the role of
\* a profile, and changes a balance only as the balance write of a deposit or
\* withdrawal call.
C16_NoSelfService ==
  [][\A u \in ProfileIds :
        ~IsAdmin(actor') =>
          /\ profiles'[u].role = profiles[u].role
          /\ profiles'[u].balance # profiles[u].balance
               => \E p \in Procs : procs[p].pc = "balance" /\ procs'[p] = Idle]_vars

\* Some deposit or withdrawal has a different status after the step.
StatusChanges ==
  \/ \E d \in DOMAIN deposits : deposits'[d].status # deposits[d].status
  \/ \E w \in DOMAIN withdrawals : withdrawals'[w].status # withdrawals[w].status

\* C17: a row is inserted with status pending, and the status of a deposit or
\* withdrawal changes only in a step issued by an identity whose profile has
\* role admin.
C17_StatusByAdminOnly ==
  [][/\ Len(deposits') > Len(deposits) => deposits'[Len(deposits')].status = "pending"
     /\ Len(withdrawals') > Len(withdrawals)
          => withdrawals'[Len(withdrawals')].status = "pending"
     /\ StatusChanges => IsAdmin(actor')]_vars

\* A non-admin identity has sent the status update of reject or fail for a
\* pending withdrawal, and the withdrawal is still pending.
C17_Witness ==
  \E p \in Procs :
     /\ procs[p].op \in {"withdrawal.reject", "withdrawal.fail"}
     /\ procs[p].pc = "select"
     /\ ~IsAdmin(procs[p].uid)
     /\ procs[p].id \in DOMAIN withdrawals
     /\ withdrawals[procs[p].id].status = "pending"

\* C19: every identity reads the same settings as an admin, and the settings
\* table changes only in a step issued by an identity whose profile has role
\* admin.
C19_SettingsAdminWritable ==
  [][/\ \A uid \in Identities, k \in SettingKeys :
          settingsService_get(settings, uid, k)
            = settingsService_get(settings, CHOOSE a \in Admins : TRUE, k)
     /\ settings' # settings => IsAdmin(actor')]_vars

\* A settings update of a non-admin identity has just been refused, on a
\* table that holds a row.
C19_Witness ==
  /\ thrown = "row-level security: settings"
  /\ ~IsAdmin(actor)
  /\ settings # {}

OneRowPerKey(rows) ==
  \A r1, r2 \in rows : r1.key = r2.key => r1 = r2

\* get and getAll give value for key, and what they gave before for the
\* other keys; there is one row per key.
Overwritten(before, after, key, value) ==
  /\ OneRowPerKey(after)
  /\ \A uid \in Identities :
       /\ settingsService_get(after, uid, key) = value
       /\ key \in DOMAIN settingsService_getAll(after, uid)
       /\ settingsService_getAll(after, uid)[key] = value
       /\ \A k2 \in SettingKeys \ {key} :
            settingsService_get(after, uid, k2) = settingsService_get(before, uid, k2)

\* C20: the settings table has one row per key; whatever update(key, value)
\* is applied to it, get(key) and getAll()[key] then give value and the other
\* keys what they gave before; and every step that changes the table is such
\* an overwrite of one key.
C20_OverwriteSemantics ==
  [][/\ OneRowPerKey(settings)
     /\ \A k \in SettingKeys, v \in SettingValues :
          Overwritten(settings, Upsert(settings, k, v), k, v)
     /\ settings' # settings
          => \E k \in SettingKeys, v \in SettingValues :
                Overwritten(settings, settings', k, v)]_vars

\* A key has been overwritten by a later update while another key has a row.
C20_Witness ==
  \E r1, r2 \in settings :
     /\ r1.updated
     /\ r1.key # r2.key
     /\ settingsService_get(settings, "anon", r1.key) = r1.value

\* The withdrawal call p is in belongs to the scenario: it is for
\* ScenarioAmount with the form's charge.
InScenario(p) ==
  /\ procs[p].id \in DOMAIN withdrawals
  /\ withdrawals[procs[p].id].amount = ScenarioAmount
  /\ withdrawals[procs[p].id].charges = withdrawalCharge
  /\ procs[p].amount = ScenarioAmount

\* C18: from balance 1000 with charge 50, the debit of a creation of 200
\* leaves balance 800 and a pending record with net amount 150; a change of
\* status to processing leaves the balance as it is; the refund of a fail
\* call on that withdrawal, with the balance at 800, leaves the record failed
\* and the balance 1000, and the reason shown to the user is the reason given
\* to fail (a non-empty string).
C18_Scenario ==
  [][\A p \in Procs :
        LET c == procs[p]
            u == c.userId
        IN /\ (/\ c.op = "withdrawal.create" /\ c.pc = "balance" /\ procs'[p] = Idle
               /\ InScenario(p)
               /\ profiles[u].balance = ScenarioBalance)
                => /\ profiles'[u].balance = 800
                   /\ withdrawals'[c.id].status = "pending"
                   /\ withdrawals'[c.id].net_amount = 150
           /\ \A w \in DOMAIN withdrawals :
                (withdrawals[w].status # "processing"
                 /\ withdrawals'[w].status = "processing")
                  => profiles' = profiles
           /\ (/\ c.op = "withdrawal.fail" /\ c.pc = "balance" /\ procs'[p] = Idle
               /\ InScenario(p) /\ c.clean /\ wledger[c.id].clean
               /\ wledger[c.id].pre = ScenarioBalance)
                => /\ withdrawals'[c.id].status = "failed"
                   /\ profiles'[u].balance = 1000
                   /\ c.note # "" => FailureReasonShown(withdrawals'[c.id]) = c.note]_vars

\* The scenario has run to its end: the withdrawal of 200, net 150, is failed
\* with the reason given, refunded once, and the balance is 1000 again.
C18_Witness ==
  \E w \in DOMAIN withdrawals :
     /\ withdrawals[w].status = "failed"
     /\ withdrawals[w].amount = 200 /\ withdrawals[w].net_amount = 150
     /\ wledger[w].debited /\ wledger[w].clean /\ wledger[w].refunds = 1
     /\ FailureReasonShown(withdrawals[w]) = "bank rejected"
     /\ profiles[withdrawals[w].user_id].balance = 1000
     /\ NoCallInFlight
\* The rows of a table other than rowId are the same before and after.
OthersUnchanged(before, after, rowId) ==
  /\ DOMAIN after = DOMAIN before
  /\ \A i \in DOMAIN before : i # rowId => after[i] = before[i]

\* A row differs from what it was in the named columns at most.
SameBut(before, after, columns) ==
  /\ DOMAIN after = DOMAIN before
  /\ \A c \in DOMAIN before : c \notin columns => after[c] = before[c]

\* C21: depositService.reject and withdrawalService.approve, hold,
\* startProcessing and uploadPaymentProof leave every profile (so every
\* balance) and the other table as they were, change no row but the one with
\* the given id, and change of that row only the columns they set.
C21_StatusOnlyFrame ==
  [][\A p \in Procs, uid \in Admins :
       /\ \A d \in DOMAIN deposits :
            depositService_reject(p, uid, d)
              => /\ profiles' = profiles
                 /\ withdrawals' = withdrawals
                 /\ OthersUnchanged(deposits, deposits', d)
                 /\ SameBut(deposits[d], deposits'[d], {"status"})
       /\ \A w \in DOMAIN withdrawals :
            \/ withdrawalService_approve(p, uid, w, "null")
            \/ withdrawalService_hold(p, uid, w)
            \/ \E d \in Durations : withdrawalService_startProcessing(p, uid, w, d)
            \/ withdrawalService_uploadPaymentProof(p, uid, w, "proof")
            => /\ profiles' = profiles
               /\ deposits' = deposits
               /\ OthersUnchanged(withdrawals, withdrawals', w)
               /\ SameBut(withdrawals[w], withdrawals'[w],
                          {"status", "admin_transaction_ref", "payment_proof",
                           "processing_end_time"})
    ]_vars

\* A deposit rejected after its credit, and two debited withdrawals of which
\* one has been held, processed or completed while the other is still pending.
C21_Witness ==
  /\ \E d \in DOMAIN deposits : deposits[d].status = "rejected" /\ dledger[d] = 1
  /\ \E w1, w2 \in DOMAIN withdrawals :
       /\ w1 # w2
       /\ withdrawals[w1].status \in {"held", "processing", "completed"}
       /\ withdrawals[w2].status = "pending"
       /\ wledger[w1].debited /\ wledger[w2].debited
       /\ wledger[w1].refunds = 0 /\ wledger[w2].refunds = 0

\* C24: a withdrawal that is rejected or failed has a non-empty admin_note,
\* and what the wallet page's dialog and the withdrawal modal's failed step
\* show for it is that admin_note.
C24_ReasonShownVerbatim ==
  \A w \in DOMAIN withdrawals :
     withdrawals[w].status \in {"rejected", "failed"}
       => /\ withdrawals[w].admin_note \notin {"null", ""}
          /\ FailureReasonShown(withdrawals[w]) = withdrawals[w].admin_note
          /\ WithdrawalModal_failureReason(withdrawals[w]) = withdrawals[w].admin_note

\* C29: the balance written by reject, fail and approve is the balance of
\* the owner of the record with the given id, raised by that record's stored
\* amount, and no other profile's balance changes.
C29_CreditToOwner ==
  [][\A p \in Procs :
       RefundBalance(p) \/ depositService_approve_balance(p)
         => LET c == procs[p]
                table == IF c.op = "deposit.approve" THEN deposits ELSE withdrawals
            IN /\ c.id \in DOMAIN table
               /\ \A u \in ProfileIds :
                    profiles'[u].balance =
                      profiles[u].balance
                        + (IF u = table[c.id].user_id THEN table[c.id].amount ELSE 0)
    ]_vars

\* C25: what the two withdrawal forms pass to create satisfies
\* netAmount = amount - charges, 0 < netAmount and 0 < amount <= the balance
\* the form holds; and every row stored has net_amount = amount - charges.
C25_NetAmountConsistent ==
  [][/\ \A p \in Procs :
          \/ WithdrawalFormModal_handleSubmit(p, FormsBounds)
          \/ WithdrawalModal_handleRequestWithdrawal(p, FormsBounds)
          => LET c == procs'[p]
             IN /\ c.netAmount = c.amount - c.charges
                /\ 0 < c.netAmount
                /\ 0 < c.amount /\ c.amount <= profiles[c.userId].balance
     /\ \A w \in DOMAIN withdrawals' :
          withdrawals'[w].net_amount = withdrawals'[w].amount - withdrawals'[w].charges
    ]_vars

\* C26: the charge a withdrawal form passes to create is the value of the
\* setting 'withdrawal_charges' at the time of the request, also after the
\* admin has changed it.
C26_ChargeIsSetting ==
  [][\A p \in Procs :
       \/ WithdrawalFormModal_handleSubmit(p, FormsBounds)
       \/ WithdrawalModal_handleRequestWithdrawal(p, FormsBounds)
       => procs'[p].charges
            = ParseFloat(settingsService_get(settings, procs'[p].uid,
                                             "withdrawal_charges"))
    ]_vars

\* C22: once the modal waits in 'bank_details' polling a withdrawal that has
\* become completed, rejected or failed (and stays so), it eventually is out
\* of 'bank_details' with its polling interval cleared.
C22_PollingEnds ==
  \A w \in 1..PollWithdrawals :
     []((/\ wmodal.step = "bank_details"
         /\ wmodal.polling = w
         /\ [](w \in DOMAIN withdrawals
               /\ withdrawals[w].status \in WithdrawalTerminal))
          => <>(wmodal.step # "bank_details" /\ wmodal.polling = 0))

\* C23: a deposit modal in 'processing' whose deposit has become approved or
\* rejected (and stays so) eventually is out of 'processing', whether or not
\* its handler was registered when the event was emitted.
C23_ProcessingEnds ==
  \A d \in 1..ModalDeposits :
     []((/\ dmodal.step = "processing"
         /\ dmodal.deposit = d
         /\ [](d \in DOMAIN deposits /\ deposits[d].status \in DepositTerminal))
          => <>(dmodal.step # "processing"))

\* C27: a withdrawal leaves 'processing' only by a step of an admin's call;
\* the passing of time changes no status and no balance, also past the
\* deadline; and startProcessing stores as processing_end_time the time of
\* the call plus durationMinutes, with status 'processing'.
C27_ProcessingUntilAdmin ==
  [][/\ \A w \in DOMAIN withdrawals :
          withdrawals[w].status = "processing" /\ withdrawals'[w].status # "processing"
            => IsAdmin(actor') /\ now' = now
     /\ now' # now
          => profiles' = profiles /\ withdrawals' = withdrawals /\ deposits' = deposits
     /\ \A p \in Procs, ad \in Admins, w \in DOMAIN withdrawals, d \in Durations :
          withdrawalService_startProcessing(p, ad, w, d)
            => /\ withdrawals'[w].status = "processing"
               /\ withdrawals'[w].processing_end_time = <<now + d>>
    ]_vars

\* A withdrawal still processing, and still debited, after its deadline.
C27_Witness ==
  \E w \in DOMAIN withdrawals :
     /\ withdrawals[w].status = "processing"
     /\ withdrawals[w].processing_end_time # <<>>
     /\ withdrawals[w].processing_end_time[1] < now
     /\ wledger[w].refunds = 0
     /\ profiles[withdrawals[w].user_id].balance = ScenarioBalance - ScenarioAmount

\* C28: what AdminRoute renders is the loading screen while loading, else
\* the redirect to /login without a user, else the redirect to /dashboard
\* unless the profile's role is 'admin', else its children; what
\* ProtectedRoute renders is the loading screen while loading, else the
\* redirect to /login without a user, else its children.
C28_RouteGuards ==
  [][/\ RenderAdminRoute
          => /\ route'.AdminRoute = "children"
                  <=> ~route.loading /\ route.user # "null" /\ route.role = "admin"
             /\ route.loading => route'.AdminRoute = "LoadingScreen"
             /\ ~route.loading /\ route.user = "null" => route'.AdminRoute = "/login"
             /\ ~route.loading /\ route.user # "null" /\ route.role # "admin"
                  => route'.AdminRoute = "/dashboard"
     /\ RenderProtectedRoute
          => /\ route'.ProtectedRoute = "children"
                  <=> ~route.loading /\ route.user # "null"
             /\ route.loading => route'.ProtectedRoute = "LoadingScreen"
             /\ ~route.loading /\ route.user = "null"
                  => route'.ProtectedRoute = "/login"
    ]_vars

\* Loading has finished with no user and no profile, and both guards have
\* rendered the redirect to /login.
C28_Witness ==
  /\ ~route.loading /\ route.user = "null" /\ route.role = "null"
  /\ route.AdminRoute = "/login"
  /\ route.ProtectedRoute = "/login"

\* C30: what getBankDetails returns is one whole set of bank details: the
\* five values from before an updateBankDetails call or the five values it
\* was given, never some of each, whether the call returned or threw.
C30_BankDetailsAllOrNothing ==
  bankView \in {NoBankDetails, BankDefaults, NewBankDetails}

====
